---- MODULE Spec2Model ----
(***************************************************************************)
(* A model of the Telesocial REST client (telesocial.py): the transport    *)
(* (_do_raw, _do, get/post/delete), the endpoint functions of SimpleClient *)
(* and the helper deep_find.  A call is one atomic step: the client is     *)
(* synchronous, and the remote server's answer is an input of the call.    *)
(***************************************************************************)
EXTENDS Integers, Sequences, FiniteSets, TLC

VARIABLES
    appkey,              \* SimpleClient._appkey
    host,                \* SimpleClient.host: scheme + host name
    httpErrorHasReason,  \* the runtime's urllib: does HTTPError carry `reason`?
    query,               \* a parameter mapping owned (and reused) by the caller
    pc,                  \* "idle": no call in progress; "done": a call has ended
    call,                \* the function called last and what it was given
    request,             \* the requests the call issued, in order
    resp,                \* what the transport handed to the endpoint function
    outcome,             \* what the call returned or raised
    dfData,              \* deep_find: the data it is applied to
    dfResult,            \* deep_find: what it returned or raised
    strIsBytes,          \* the runtime's str: the byte string of Python 2?
    direct,              \* the requests the call issued with urlopen itself
    written,             \* the files the call wrote, in order
    printed,             \* what the call printed, in order
    label,               \* the GUI: the label shown for a conference participant
    earlier              \* the access of a wrapper property just before this one

vars == <<appkey, host, httpErrorHasReason, query, pc, call, request, resp,
          outcome, dfData, dfResult, strIsBytes, direct, written, printed,
          label, earlier>>

----------------------------------------------------------------------------
(* Bounds of the model.                                                    *)

\* the largest number of key/value entries, at all depths, of a generated mapping
MaxEntries == 3
\* the longest list a list-or-scalar-or-absent field of a response holds
MaxListLen == 2

----------------------------------------------------------------------------
(* Python and JSON values, tagged: v is always a sequence.                 *)

Str(s)  == [t |-> "str",  v |-> <<s>>]
Num(n)  == [t |-> "int",  v |-> <<n>>]
Bool(b) == [t |-> "bool", v |-> <<b>>]
None    == [t |-> "None", v |-> <<>>]
\* a dict is its items, in iteration order: a sequence of <<key, value>>
Dict(items) == [t |-> "dict", v |-> items]
List(elems) == [t |-> "list", v |-> elems]

IsDict(x) == x.t = "dict"
IsList(x) == x.t = "list"

\* Python truthiness (`if x:`)
Truthy(x) ==
    CASE x.t = "str"  -> x.v[1] # ""
      [] x.t = "int"  -> x.v[1] # 0
      [] x.t = "bool" -> x.v[1]
      [] x.t = "None" -> FALSE
      [] OTHER        -> Len(x.v) > 0

KeysOf(d) == {d.v[i][1] : i \in 1..Len(d.v)}
\* `key in d` for a dict d
HasKey(d, key) == key \in KeysOf(d)
\* d[key] for a dict d holding key
Item(d, key) == d.v[CHOOSE i \in 1..Len(d.v) : d.v[i][1] = key][2]
\* d[key] = val: an existing key keeps its place, a new key goes last
Put(d, key, val) ==
    IF HasKey(d, key)
    THEN Dict([i \in 1..Len(d.v) |->
                  IF d.v[i][1] = key THEN <<key, val>> ELSE d.v[i]])
    ELSE Dict(Append(d.v, <<key, val>>))

----------------------------------------------------------------------------
(* Errors.                                                                 *)

\* an exception in flight: its class and the fields TelesocialError.__init__ sets
Exc(cls, code, message, original) ==
    [cls |-> cls, code |-> code, message |-> message, original |-> original]

NoExc == Exc("", None, None, "")

\* TelesocialError.__init__ behind TelesocialNetworkError(original): code and
\* message are not passed and take their defaults
TelesocialNetworkError(original) ==
    Exc("TelesocialNetworkError", Num(500), Str("Unknown error"), original)

\* TelesocialServiceError(code, message): both are passed on as keywords, so
\* kwargs.pop finds them and the defaults are not used
TelesocialServiceError(code, message) ==
    Exc("TelesocialServiceError", code, message, "")

\* an exception of the runtime that no handler of the module catches
PyError(cls) == Exc(cls, None, None, "")

\* TelesocialError.__str__
ErrStr(e) ==
    IF e.original # "" THEN <<e.original>> ELSE <<e.code, ": ", e.message>>

\* the result of evaluating an expression: a value, or an exception raised
Ok(val)    == [raised |-> FALSE, val |-> val, exc |-> NoExc]
Raise(exc) == [raised |-> TRUE,  val |-> None, exc |-> exc]

----------------------------------------------------------------------------
(* deep_find                                                               *)

RECURSIVE deep_find(_, _)
RECURSIVE deep_find_loop(_, _, _, _)

\* the for loop of deep_find from the i-th item on, r being the list so far
deep_find_loop(data, key, i, r) ==
    IF i > Len(data.v)
    THEN IF Len(r) > 0 THEN Ok(r[1]) ELSE Raise(PyError("IndexError"))
    ELSE IF IsDict(data.v[i][2])
         THEN LET a == deep_find(data.v[i][2], key) IN
              IF a.raised THEN a
              ELSE IF Truthy(a.val) \/ a.val = Str("")
                   THEN deep_find_loop(data, key, i + 1, Append(r, a.val))
                   ELSE deep_find_loop(data, key, i + 1, r)
         ELSE deep_find_loop(data, key, i + 1, r)

deep_find(data, key) ==
    IF HasKey(data, key)
    THEN Ok(Item(data, key))
    ELSE deep_find_loop(data, key, 1, <<>>)

----------------------------------------------------------------------------
(* The transport: RequestWithMethod, _do_raw, _do, get, post, delete.      *)

\* Response = namedtuple('Response', 'code data')
Response(code, data) == [t |-> "Response", v |-> <<code, data>>]
Code(res) == res.v[1]
Data(res) == res.v[2]

\* what the server sends back: JSON text (doc is the document it denotes),
\* text that is no JSON, or bytes that are no text at all
JsonPayload(doc)  == [enc |-> "json",  doc |-> doc,  text |-> ""]
TextPayload(text) == [enc |-> "text",  doc |-> None, text |-> text]
BytesPayload      == [enc |-> "bytes", doc |-> None, text |-> ""]

\* the server's part in one request: it answers with a status and a payload,
\* or no response is obtained at all
HttpAnswer(status, payload) == [got |-> TRUE, status |-> status, payload |-> payload]
NoAnswer == [got |-> FALSE, status |-> 0, payload |-> TextPayload("")]

\* str.upper() on the method tags
Upper(method) ==
    CASE method = "get"    -> "GET"
      [] method = "post"   -> "POST"
      [] method = "delete" -> "DELETE"
      [] OTHER             -> method

\* quote_plus, on the strings of the model: a space becomes "+"
quote_plus(s) ==
    CASE s = "net 1" -> "net+1"
      [] s = "key 2" -> "key+2"
      [] OTHER       -> s

\* str(v) of a parameter value
PyStr(val) == IF val.t = "None" THEN "None" ELSE val.v[1]

RECURSIVE urlencode_from(_, _)
\* urlencode(params, True): one key=value pair per item, in iteration order
urlencode_from(params, i) ==
    IF i > Len(params.v) THEN <<>>
    ELSE <<<<quote_plus(params.v[i][1]), quote_plus(PyStr(params.v[i][2]))>>>>
             \o urlencode_from(params, i + 1)

urlencode(params) == urlencode_from(params, 1)

\* `params = params or {}`: a None or an empty mapping is replaced by a new one
ParamsOrEmpty(params) == IF Truthy(params) THEN params ELSE Dict(<<>>)

\* the injection without its test: the client's key replaces the caller's
InjectAppkey_Overwrite(params, key) == Put(params, "appkey", Str(key))

\* `if not 'appkey' in params: params['appkey'] = self.appkey`
InjectAppkey(params, key) ==
    IF HasKey(params, "appkey") THEN params ELSE Put(params, "appkey", Str(key))

\* is the mapping _do_raw writes to the very object the caller passed?
SameObject(params) == Truthy(params)

\* the uri of a request, in parts; qs is the query string after "?", if any
Uri(base, path, hasQuery, qs) ==
    [base |-> base, prefix |-> "/api/rest/", path |-> path,
     hasQuery |-> hasQuery, qs |-> qs]

\* the list with DELETE in it, as in the comment of line 135
InBody_WithDelete(method) == method \in {"POST", "DELETE"}

\* `method in ['POST']`: the methods whose parameters travel in the body
InBody(method) == method \in {"POST"}

\* RequestWithMethod(uri, method, data.encode() if data else None)
RequestWithMethod(uri, method, data) == [uri |-> uri, _method |-> method, data |-> data]

NoData == [present |-> FALSE, body |-> <<>>]
Body(qs) == IF Len(qs) > 0 THEN [present |-> TRUE, body |-> qs] ELSE NoData

\* RequestWithMethod.get_method
get_method(req) ==
    IF req._method # "" THEN req._method
    ELSE IF req.data.present THEN "POST" ELSE "GET"

\* lines 126-141 of _do_raw: the request built from uri, params and method
BuildRequest(base, path, sent, method) ==
    LET query_string == urlencode(sent)
        m == Upper(method)
    IN  IF InBody(m)
        THEN RequestWithMethod(Uri(base, path, FALSE, <<>>), m, Body(query_string))
        ELSE RequestWithMethod(Uri(base, path, TRUE, query_string), m, NoData)

\* urlopen(req): a response object for a 2xx status, HTTPError for another
\* status, URLError when no response is obtained
urlopen(ans) ==
    IF ~ans.got THEN [raised |-> TRUE, err |-> "URLError"]
    ELSE IF 200 <= ans.status /\ ans.status < 300
         THEN [raised |-> FALSE, err |-> ""]
         ELSE [raised |-> TRUE, err |-> "HTTPError"]

\* hasattr(e, 'reason'): URLError sets it; HTTPError, its subclass, defines it
\* as a property from Python 2.7.4 and 3.3 on and lacks it before: the module
\* imports either urllib (lines 13-21), so both runtimes are possible
HasReason(err, runtimeHasReason) ==
    IF err = "URLError" THEN TRUE ELSE runtimeHasReason

\* bytes.decode(): text, or UnicodeDecodeError
decode(payload) ==
    IF payload.enc = "bytes" THEN Raise(PyError("UnicodeDecodeError")) ELSE Ok(payload)

\* json.loads(data)
json_loads(payload) ==
    IF payload.enc = "json" THEN Ok(payload.doc) ELSE Raise(PyError("ValueError"))

\* one run of _do_raw: the record of the request (the mapping and the method
\* tag it was given, the mapping it sent, the request object, the server's
\* answer), and the pair (code, data) returned or the exception raised
_do_raw(self, path, params, method, ans) ==
    LET sent == InjectAppkey(ParamsOrEmpty(params), self.appkey)
        req  == BuildRequest(self.host, path, sent, method)
        f    == urlopen(ans)
        rec  == [given |-> params, sent |-> sent, method |-> method, req |-> req,
                 ans |-> ans]
        out  == IF f.raised /\ HasReason(f.err, self.hasReason)
                THEN Raise(TelesocialNetworkError(f.err))
                ELSE LET d == decode(ans.payload) IN
                     IF d.raised THEN d
                     ELSE Ok(<<ans.status, d.val>>)
    IN  [rec |-> rec, out |-> out]

\* _do: the Response made of what _do_raw returned
_do(self, path, params, method, ans) ==
    LET r  == _do_raw(self, path, params, method, ans) IN
    IF r.out.raised THEN r
    ELSE LET js == json_loads(r.out.val[2]) IN
         [rec |-> r.rec,
          out |-> IF js.raised THEN Ok(Response(r.out.val[1], Dict(<<>>)))
                  ELSE Ok(Response(r.out.val[1], js.val))]

get(self, path, q, ans)    == _do(self, path, q, "get", ans)
post(self, path, q, ans)   == _do(self, path, q, "post", ans)
delete(self, path, q, ans) == _do(self, path, q, "delete", ans)

----------------------------------------------------------------------------
(* The endpoint functions of SimpleClient.  Each takes the client, its     *)
(* arguments and the server's answer, and yields the requests it issued    *)
(* (reqs), what the transport handed back (resp) and its own result (out). *)

\* `200 <= res.code < 300`
Is2xx(code) == 200 <= code /\ code < 300
\* `res.code in [200]`
Is200(code) == code \in {200}
\* `res.code in [200, 401, 404]`
IsStatusCode(code) == code \in {200, 401, 404}

\* `raise TelesocialServiceError(res.code, deep_find(res.data, 'message'))`:
\* the arguments are evaluated first, and deep_find may raise
ServiceFailure(res) ==
    LET m == deep_find(Data(res), "message") IN
    IF m.raised THEN m
    ELSE Raise(TelesocialServiceError(Num(Code(res)), m.val))

\* the status test of an endpoint function, by the name of its form
Accepts(test, code) ==
    CASE test = "Is2xx" -> Is2xx(code)
      [] test = "Is200" -> Is200(code)
      [] test = "IsStatusCode" -> IsStatusCode(code)

\* an end that asks the server again after a failure of the transport
Policy_Retry(t, test) ==
    [reqs |-> IF t.out.raised THEN <<t.rec, t.rec>> ELSE <<t.rec>>,
     resp |-> t.out,
     out  |-> IF t.out.raised THEN t.out
              ELSE IF Accepts(test, Code(t.out.val)) THEN Ok(t.out.val)
              ELSE ServiceFailure(t.out.val)]

\* the end of an endpoint function: `if <test>: return res`, else the raise
Policy(t, test) ==
    [reqs |-> <<t.rec>>,
     resp |-> t.out,
     out  |-> IF t.out.raised THEN t.out
              ELSE IF Accepts(test, Code(t.out.val)) THEN Ok(t.out.val)
              ELSE ServiceFailure(t.out.val)]

\* the normalization without its second branch: a lone item stays as it is
NormalizeField_KeepScalar(struct, field) ==
    IF ~HasKey(struct, field) THEN Put(struct, field, List(<<>>)) ELSE struct

\* absent -> [], a value that is no list -> [value], a list -> left alone
NormalizeField(struct, field) ==
    IF ~HasKey(struct, field) THEN Put(struct, field, List(<<>>))
    ELSE IF ~IsList(Item(struct, field))
         THEN Put(struct, field, List(<<Item(struct, field)>>))
         ELSE struct

RECURSIVE NormalizeFields(_, _)
NormalizeFields(struct, fields) ==
    IF fields = <<>> THEN struct
    ELSE NormalizeFields(NormalizeField(struct, Head(fields)), Tail(fields))

\* res.data[wrapper][field] normalized in place, for each of the fields:
\* KeyError without the wrapper, TypeError when the wrapper is no mapping
NormalizeIn(res, wrapper, fields) ==
    IF ~HasKey(Data(res), wrapper) THEN Raise(PyError("KeyError"))
    ELSE IF ~IsDict(Item(Data(res), wrapper)) THEN Raise(PyError("TypeError"))
    ELSE Ok(Response(Code(res),
                     Put(Data(res), wrapper,
                         NormalizeFields(Item(Data(res), wrapper), fields))))

\* the end of a list endpoint: an accepted response is normalized and returned
PolicyNormalized(t, test, wrapper, fields) ==
    [reqs |-> <<t.rec>>,
     resp |-> t.out,
     out  |-> IF t.out.raised THEN t.out
              ELSE IF Accepts(test, Code(t.out.val))
                   THEN NormalizeIn(t.out.val, wrapper, fields)
                   ELSE ServiceFailure(t.out.val)]

\* `if val is not None: params[key] = what`
With_IfNotNone(params, val, key, what) == IF val # None THEN Put(params, key, what) ELSE params

\* `if val: params[key] = what`
With(params, val, key, what) == IF Truthy(val) THEN Put(params, key, what) ELSE params

\* `active == False`
EqFalse(val) == val = Bool(FALSE) \/ val = Num(0)

network_id_register(self, network_id, phone, greeting_id, ans) ==
    LET params == With(With(Dict(<<<<"networkid", network_id>>>>),
                            phone, "phone", phone),
                       greeting_id, "greetingid", greeting_id)
    IN  Policy(post(self, <<"registrant", "">>, params, ans), "Is2xx")

network_id_status(self, network_id, check_related, ans) ==
    LET params == With(Dict(<<>>), check_related, "query", Str("related"))
    IN  Policy(post(self, <<"registrant", PyStr(network_id)>>, params, ans),
               "IsStatusCode")

network_id_list(self, ans) ==
    PolicyNormalized(get(self, <<"registrant">>, None, ans), "Is200",
                     "NetworkidListResponse", <<"networkids">>)

network_id_change(self, network_id, phone, ans) ==
    Policy(post(self, <<"registrant", PyStr(network_id), PyStr(phone)>>, None, ans),
           "Is2xx")

network_id_delete(self, network_id, ans) ==
    Policy(delete(self, <<"registrant", PyStr(network_id)>>, None, ans), "Is200")

conference_create(self, network_id, greeting_id, recording_id, ans) ==
    LET params == With(With(Dict(<<<<"networkid", network_id>>>>),
                            recording_id, "recordingid", recording_id),
                       greeting_id, "greetingid", greeting_id)
    IN  Policy(post(self, <<"conference">>, params, ans), "Is2xx")

conference_add(self, conference_id, network_id, greeting_id, muted, ans) ==
    LET params == With(With(Dict(<<<<"networkid", network_id>>, <<"action", Str("add")>>>>),
                            greeting_id, "greetingid", greeting_id),
                       muted, "muted", Str("true"))
    IN  Policy(post(self, <<"conference", PyStr(conference_id)>>, params, ans), "Is2xx")

conference_close(self, conference_id, ans) ==
    Policy(post(self, <<"conference", PyStr(conference_id)>>,
                Dict(<<<<"action", Str("close")>>>>), ans), "Is2xx")

conference_hangup(self, conference_id, network_id, ans) ==
    Policy(post(self, <<"conference", PyStr(conference_id), PyStr(network_id)>>,
                Dict(<<<<"action", Str("hangup")>>>>), ans), "Is2xx")

conference_move(self, from_id, to_id, network_id, ans) ==
    Policy(post(self, <<"conference", PyStr(from_id), PyStr(network_id)>>,
                Dict(<<<<"toconferenceid", to_id>>, <<"action", Str("move")>>>>), ans),
           "Is2xx")

conference_mute(self, conference_id, network_id, mute, ans) ==
    Policy(post(self, <<"conference", PyStr(conference_id), PyStr(network_id)>>,
                Dict(<<<<"action", IF Truthy(mute) THEN Str("mute") ELSE Str("unmute")>>>>),
                ans),
           "Is2xx")

conference_unmute(self, conference_id, network_id, ans) ==
    conference_mute(self, conference_id, network_id, Bool(FALSE), ans)

conference_list(self, active, ans) ==
    LET params == With(Dict(<<>>), active, "active", Str("true"))
    IN  PolicyNormalized(get(self, <<"conference">>, params, ans), "Is200",
                         "ConferenceListResponse",
                         IF EqFalse(active) THEN <<"active", "inactive">>
                         ELSE <<"active">>)

conference_details(self, conference_id, ans) ==
    PolicyNormalized(get(self, <<"conference", PyStr(conference_id)>>, None, ans),
                     "Is2xx", "ConferenceDetailsResponse", <<"participants">>)

media_create(self, ans) ==
    Policy(post(self, <<"media">>, Dict(<<>>), ans), "Is2xx")

media_record(self, media_id, network_id, greeting_id, ans) ==
    LET params == With(Dict(<<<<"networkid", network_id>>, <<"action", Str("record")>>>>),
                       greeting_id, "greetingid", greeting_id)
    IN  Policy(post(self, <<"media", PyStr(media_id)>>, params, ans), "Is2xx")

\* the ids of a list joined from the last to the first
JoinIds_Reversed(media_ids) ==
    IF IsList(media_ids)
    THEN [i \in 1..(2 * Len(media_ids.v) - 1) |->
              IF i % 2 = 1
              THEN PyStr(media_ids.v[Len(media_ids.v) + 1 - ((i + 1) \div 2)])
              ELSE "-"]
    ELSE <<PyStr(media_ids)>>

\* "-".join(media_ids) for a list of ids, the id itself otherwise
JoinIds(media_ids) ==
    IF IsList(media_ids)
    THEN [i \in 1..(2 * Len(media_ids.v) - 1) |->
              IF i % 2 = 1 THEN PyStr(media_ids.v[(i + 1) \div 2]) ELSE "-"]
    ELSE <<PyStr(media_ids)>>

media_blast(self, media_ids, network_id, greeting_id, ans) ==
    LET params == With(Dict(<<<<"networkid", network_id>>, <<"action", Str("blast")>>>>),
                       greeting_id, "greetingid", greeting_id)
    IN  Policy(post(self, <<"media">> \o JoinIds(media_ids), params, ans), "Is2xx")

media_status(self, media_id, ans) ==
    Policy(post(self, <<"media", "status", PyStr(media_id)>>, Dict(<<>>), ans), "Is2xx")

media_request_upload_grant(self, media_id, ans) ==
    Policy(post(self, <<"media", PyStr(media_id)>>,
                Dict(<<<<"action", Str("upload_grant")>>>>), ans), "Is2xx")

media_remove(self, media_id, ans) ==
    Policy(post(self, <<"media", PyStr(media_id)>>,
                Dict(<<<<"action", Str("remove")>>>>), ans), "Is2xx")

media_list(self, ans) ==
    PolicyNormalized(get(self, <<"media">>, None, ans), "Is200",
                     "MediaidListResponse", <<"uploaded", "recorded">>)

----------------------------------------------------------------------------
(* version(): the raw body of GET version, parsed.                         *)

Tuple(items) == [t |-> "tuple", v |-> items]

\* the pair (code, data) of a raw answer, as the caller of _do_raw holds it
RawPair(pair) == [t |-> "raw", v |-> pair]

\* the characters of the texts the server answers with; the text of a JSON
\* document starts with a brace
Chars(text) ==
    CASE text = "2.4.1"  -> <<"2", ".", "4", ".", "1">>
      [] text = "1.3.10" -> <<"1", ".", "3", ".", "1", "0">>
      [] text = "2.4"    -> <<"2", ".", "4">>
      [] text = "2..1"   -> <<"2", ".", ".", "1">>
      [] text = "bad"    -> <<"b", "a", "d">>
      [] text = "{}"     -> <<"{", "}">>
      [] OTHER           -> <<>>

\* the text _do_raw returns for a payload
RawText(payload) == IF payload.enc = "json" THEN "{}" ELSE payload.text

RECURSIVE split(_, _)
\* str.split(sep): the pieces between the separators, empty ones included
split(chars, sep) ==
    IF \A i \in 1..Len(chars) : chars[i] # sep THEN <<chars>>
    ELSE LET i == CHOOSE j \in 1..Len(chars) :
                      chars[j] = sep /\ \A k \in 1..(j - 1) : chars[k] # sep
         IN  <<SubSeq(chars, 1, i - 1)>> \o split(SubSeq(chars, i + 1, Len(chars)), sep)

Digit(c) ==
    CASE c = "0" -> 0 [] c = "1" -> 1 [] c = "2" -> 2 [] c = "3" -> 3
      [] c = "4" -> 4 [] c = "5" -> 5 [] c = "6" -> 6 [] c = "7" -> 7
      [] c = "8" -> 8 [] c = "9" -> 9 [] OTHER -> -1

RECURSIVE DecimalValue(_)
DecimalValue(chars) ==
    IF chars = <<>> THEN 0
    ELSE 10 * DecimalValue(SubSeq(chars, 1, Len(chars) - 1)) + Digit(chars[Len(chars)])

\* int(s): the number the digits denote, ValueError for anything else
int(chars) ==
    IF chars # <<>> /\ \A i \in 1..Len(chars) : Digit(chars[i]) >= 0
    THEN Ok(Num(DecimalValue(chars)))
    ELSE Raise(PyError("ValueError"))

\* tuple(map(int, pieces)): the first piece that is no number raises
MapInt(pieces) ==
    IF \E i \in 1..Len(pieces) : int(pieces[i]).raised
    THEN Raise(PyError("ValueError"))
    ELSE Ok(Tuple([i \in 1..Len(pieces) |-> int(pieces[i]).val]))

\* data.decode() of the text _do_raw has decoded already: the str of
\* Python 2 decodes once more, the str of Python 3 has no decode
StrDecode(self, text) ==
    IF self.strIsBytes THEN Ok(text) ELSE Raise(PyError("AttributeError"))

\* 'Invalid version response: {0}'.format(data)
InvalidVersion(text) == [t |-> "str", v |-> <<"Invalid version response: ", text>>]

\* every exception of the parse becomes a service error; the status code is
\* not looked at
version(self, ans) ==
    LET r == _do_raw(self, <<"version">>, None, "get", ans) IN
    [reqs |-> <<r.rec>>,
     resp |-> IF r.out.raised THEN r.out ELSE Ok(RawPair(r.out.val)),
     out  |-> IF r.out.raised THEN r.out
              ELSE LET text == RawText(r.out.val[2])
                       d == StrDecode(self, text)
                       parsed == IF d.raised THEN d
                                 ELSE MapInt(split(Chars(d.val), "."))
                   IN  IF parsed.raised
                       THEN Raise(TelesocialServiceError(None, InvalidVersion(text)))
                       ELSE parsed]

----------------------------------------------------------------------------
(* upload_file and download_file: the helpers that call urlopen themselves.*)

BOUNDARY == "----------ThIs_Is_tHe_bouNdaRY_$"

\* a path of the local file system, and os.path.basename of it
Path(dir, name) == [dir |-> dir, name |-> name]
basename(path)  == path.name

\* the lines of one form field and of one file, each line a tuple of its parts
FieldLines(field) ==
    << <<"--", BOUNDARY>>,
       <<"Content-Disposition: form-data; name=\"", field[1], "\"">>,
       <<>>,
       <<field[2]>> >>

FileLines(file) ==
    << <<"--", BOUNDARY>>,
       <<"Content-Disposition: form-data; name=\"", file[1], "\"; filename=\"",
         file[2], "\"">>,
       <<"Content-Type: ", "audio/mpeg">>,
       <<>>,
       <<file[3]>> >>

RECURSIVE LinesOf(_, _)
\* the loops the other way round: the files, then the fields
LinesOf_FilesFirst(fields, files) ==
    IF files # <<>> THEN FileLines(Head(files)) \o LinesOf(fields, Tail(files))
    ELSE IF fields # <<>> THEN FieldLines(Head(fields)) \o LinesOf(Tail(fields), files)
    ELSE <<>>

\* the two loops over fields and over files
LinesOf(fields, files) ==
    IF fields # <<>> THEN FieldLines(Head(fields)) \o LinesOf(Tail(fields), files)
    ELSE IF files # <<>> THEN FileLines(Head(files)) \o LinesOf(fields, Tail(files))
    ELSE <<>>

\* (content_type, body): body is the list L that CRLF joins.  The join is of
\* str lines and the bytes read from the file: it is a str where str is the
\* byte string, and a TypeError where it is not
encode_multipart_formdata(self, fields, files) ==
    IF files # <<>> /\ ~self.strIsBytes THEN Raise(PyError("TypeError"))
    ELSE Ok(Tuple(<< <<"multipart/form-data; boundary=", BOUNDARY>>,
                     LinesOf(fields, files) \o << <<"--", BOUNDARY, "--">>, <<>> >> >>))

\* the result of a helper: the requests through the transport, the requests
\* with urlopen itself, the files written, the lines printed, the outcome
HelperResult(reqs, res, out, dir, wr, pr) ==
    [reqs |-> reqs, resp |-> res, out |-> out, direct |-> dir, written |-> wr,
     printed |-> pr]

\* upload_file: POST of the multipart body to <host>/forklift; what comes
\* back is returned as it is, with no decode and no test of the code
upload_file(self, grant_id, file_path, content, ans) ==
    LET fields == << <<"grant", PyStr(grant_id)>> >>
        files  == << <<"mediafile", basename(file_path), content>> >>
        enc    == encode_multipart_formdata(self, fields, files)
    IN  IF enc.raised THEN HelperResult(<<>>, enc, enc, <<>>, <<>>, <<>>)
        ELSE LET rec == [uri |-> [base |-> self.host, path |-> <<"forklift">>],
                         data |-> enc.val.v[2],
                         headers |-> [contentType |-> enc.val.v[1],
                                      contentLengthOf |-> enc.val.v[2]],
                         ans |-> ans]
                 f   == urlopen(ans)
                 out == IF f.raised /\ HasReason(f.err, self.hasReason)
                        THEN Raise(TelesocialNetworkError(f.err))
                        ELSE Ok(RawPair(<<ans.status, ans.payload>>))
             IN  HelperResult(<<>>, out, out, <<rec>>, <<>>, <<>>)

\* `except telesocial.TelesocialError as e`: the module never binds the name
\* telesocial, so matching any exception against the clause is a NameError
ExceptTelesocialError(raised) == Raise(PyError("NameError"))

\* the try block of download_file: the status lookup and the url in it
LookupUrl(st) ==
    IF st.out.raised THEN ExceptTelesocialError(st.out)
    ELSE LET data == Data(st.out.val) IN
         IF ~HasKey(data, "MediaResponse") THEN Ok(None)
         ELSE IF ~IsDict(Item(data, "MediaResponse"))
              THEN ExceptTelesocialError(Raise(PyError("TypeError")))
         ELSE IF ~HasKey(Item(data, "MediaResponse"), "downloadUrl")
              THEN ExceptTelesocialError(Raise(PyError("KeyError")))
         ELSE Ok(Item(Item(data, "MediaResponse"), "downloadUrl"))

\* download_file: the lookup, then `if url:` the fetch and the write; URLError
\* (HTTPError is one) of the fetch is printed
download_file(self, media_id, file_path, ans, fetched) ==
    LET st  == media_status(self, media_id, ans)
        url == LookupUrl(st)
    IN  IF url.raised
        THEN HelperResult(st.reqs, st.resp, url, <<>>, <<>>, <<>>)
        ELSE IF ~Truthy(url.val)
        THEN HelperResult(st.reqs, st.resp, Ok(None), <<>>, <<>>, <<>>)
        ELSE LET rec == [uri |-> url.val, ans |-> fetched]
                 f   == urlopen(fetched)
             IN  IF f.raised
                 THEN HelperResult(st.reqs, st.resp, Ok(None), <<rec>>, <<>>, <<f.err>>)
                 ELSE HelperResult(st.reqs, st.resp, Ok(None), <<rec>>,
                                   <<[path |-> file_path, data |-> fetched.payload]>>,
                                   <<>>)

----------------------------------------------------------------------------
(* The wrappers NetworkId, Conference and Media (an id bound to a client)  *)
(* and RichClient, which makes them.  c is the SimpleClient behind them.   *)

\* TelesocialServiceError(original=e): code and message are passed on as None
TelesocialServiceErrorOf(original) == Exc("TelesocialServiceError", None, None, original)

\* a wrapper object: its class and its _id
Handle(cls, id) == [t |-> cls, v |-> <<id>>]

\* a call that ends in an exception before any request is made
RaisedAtOnce(cls) ==
    [reqs |-> <<>>, resp |-> Raise(PyError(cls)), out |-> Raise(PyError(cls))]

\* the methods of NetworkId; a holds the arguments, a default where left out
NetworkId_method(c, id, m, a, ans) ==
    CASE m = "NetworkId.blast"  -> media_blast(c, a[1], id, a[2], ans)
      [] m = "NetworkId.record" -> media_record(c, a[1], id, a[2], ans)
      [] m = "NetworkId.add"    -> conference_add(c, a[1], id, a[2], Bool(FALSE), ans)
      [] m = "NetworkId.hangup" -> conference_hangup(c, a[1], id, ans)
      [] m = "NetworkId.move"   -> conference_move(c, a[1], a[2], id, ans)
      [] m = "NetworkId.mute"   -> conference_mute(c, a[1], id, Bool(TRUE), ans)
      [] m = "NetworkId.unmute" -> conference_unmute(c, a[1], id, ans)

\* the methods of Conference; move names to_conference, which nothing binds
Conference_method(c, id, m, a, ans) ==
    CASE m = "Conference.add"    -> conference_add(c, id, a[1], a[2], Bool(FALSE), ans)
      [] m = "Conference.close"  -> conference_close(c, id, ans)
      [] m = "Conference.hangup" -> conference_hangup(c, id, a[1], ans)
      [] m = "Conference.move"   -> RaisedAtOnce("NameError")
      [] m = "Conference.mute"   -> conference_mute(c, id, a[1], Bool(TRUE), ans)
      [] m = "Conference.unmute" -> conference_unmute(c, id, a[1], ans)

\* the methods of Media
Media_method(c, id, m, a, ans) ==
    CASE m = "Media.record" -> media_record(c, id, a[1], a[2], ans)
      [] m = "Media.blast"  -> media_blast(c, id, a[1], a[2], ans)
      [] m = "Media.status" -> media_status(c, id, ans)
      [] m = "Media.remove" -> media_remove(c, id, ans)

\* `return True` under `if <test on res.code>:`, else `return False`
CodeTest(r, codes) ==
    [reqs |-> r.reqs, resp |-> r.resp,
     out  |-> IF r.out.raised THEN r.out ELSE Ok(Bool(Code(r.out.val) \in codes))]

NetworkId_exists(c, id, ans)  == CodeTest(network_id_status(c, id, Bool(TRUE), ans), {200, 401})
NetworkId_related(c, id, ans) == CodeTest(network_id_status(c, id, Bool(TRUE), ans), {200})
Media_content_exists(c, id, ans) == CodeTest(media_status(c, id, ans), {200})

\* data[wrapper][key] under `except Exception as e`: every failure of the
\* two subscripts becomes TelesocialServiceError(original=e)
Subscript2(data, wrapper, key) ==
    IF ~IsDict(data) THEN Raise(TelesocialServiceErrorOf("TypeError"))
    ELSE IF ~HasKey(data, wrapper) THEN Raise(TelesocialServiceErrorOf("KeyError"))
    ELSE IF ~IsDict(Item(data, wrapper)) THEN Raise(TelesocialServiceErrorOf("TypeError"))
    ELSE IF ~HasKey(Item(data, wrapper), key) THEN Raise(TelesocialServiceErrorOf("KeyError"))
    ELSE Ok(Item(Item(data, wrapper), key))

\* Media.download_url and Media.size: the field when the code is 200, else None
Media_field(c, id, key, ans) ==
    LET r == media_status(c, id, ans) IN
    [reqs |-> r.reqs, resp |-> r.resp,
     out  |-> IF r.out.raised THEN r.out
              ELSE IF Code(r.out.val) = 200
                   THEN Subscript2(Data(r.out.val), "MediaResponse", key)
                   ELSE Ok(None)]

Media_download_url(c, id, ans) == Media_field(c, id, "downloadUrl", ans)
Media_size(c, id, ans)         == Media_field(c, id, "fileSize", ans)

Media_upload_grant(c, id, ans) ==
    LET r == media_request_upload_grant(c, id, ans) IN
    [reqs |-> r.reqs, resp |-> r.resp,
     out  |-> IF r.out.raised THEN r.out
              ELSE Subscript2(Data(r.out.val), "UploadResponse", "grantId")]

\* a property that answers from the access before when there was one
Property_Cached(c, id, m, ans) ==
    IF earlier.fn # ""
    THEN [reqs |-> <<>>, resp |-> earlier.out, out |-> earlier.out]
    ELSE CASE m = "NetworkId.exists"     -> NetworkId_exists(c, id, ans)
           [] m = "NetworkId.related"    -> NetworkId_related(c, id, ans)
           [] m = "Media.content_exists" -> Media_content_exists(c, id, ans)
           [] m = "Media.download_url"   -> Media_download_url(c, id, ans)
           [] m = "Media.size"           -> Media_size(c, id, ans)
           [] m = "Media.upload_grant"   -> Media_upload_grant(c, id, ans)

\* a property of a wrapper, by its name
Property(c, id, m, ans) ==
    CASE m = "NetworkId.exists"     -> NetworkId_exists(c, id, ans)
      [] m = "NetworkId.related"    -> NetworkId_related(c, id, ans)
      [] m = "Media.content_exists" -> Media_content_exists(c, id, ans)
      [] m = "Media.download_url"   -> Media_download_url(c, id, ans)
      [] m = "Media.size"           -> Media_size(c, id, ans)
      [] m = "Media.upload_grant"   -> Media_upload_grant(c, id, ans)

\* a handle that answers without its id
MakeHandle_Blank(r, cls, looked) ==
    [reqs |-> r.reqs, resp |-> r.resp,
     out  |-> IF r.out.raised THEN r.out ELSE Ok(Handle(cls, None))]

\* the end of a RichClient creator: the handle of the id that was looked up
MakeHandle(r, cls, looked) ==
    [reqs |-> r.reqs, resp |-> r.resp,
     out  |-> IF r.out.raised THEN r.out
              ELSE IF looked.raised THEN looked
              ELSE Ok(Handle(cls, looked.val))]

\* the wrapped response of a call that returned (anything else is never read)
DataOf(r) == IF r.out.raised THEN Dict(<<>>) ELSE Data(r.out.val)

register_network_id(c, network_id, phone, greeting_id, ans) ==
    MakeHandle(network_id_register(c, network_id, phone, greeting_id, ans),
               "NetworkId", Ok(network_id))

create_conference(c, network_id, greeting_id, recording_id, ans) ==
    LET r == conference_create(c, network_id, greeting_id, recording_id, ans) IN
    MakeHandle(r, "Conference", Subscript2(DataOf(r), "ConferenceResponse", "conferenceId"))

create_media(c, ans) ==
    LET r == media_create(c, ans) IN
    MakeHandle(r, "Media", Subscript2(DataOf(r), "MediaResponse", "mediaId"))

----------------------------------------------------------------------------
(* The inputs: arguments of the calls and answers of the server.           *)

AppKeys     == {"key1", "key 2"}
HostName    == "sb.telesocial.com"
NetworkIds  == {Str("net 1")}
Phones      == {Str("5551234")}
ConfIds     == {Str("c1")}
MediaIds    == {Str("m1")}
\* an optional string argument: not supplied, empty, or a value
OptStrings  == {None, Str(""), Str("g1")}
\* an optional flag: False, True, or None passed in its place
OptFlags    == {Bool(FALSE), Bool(TRUE), None}
\* media_blast: one id, or a list of ids
BlastIds    == {Str("m1"), List(<<Str("m1"), Str("m2")>>)}

\* the mappings a caller of get/post/delete owns: empty, without and with a
\* key of its own
CallerQueries ==
    {Dict(<<>>),
     Dict(<<<<"q", Str("1")>>>>),
     Dict(<<<<"appkey", Str("callerkey")>>, <<"q", Str("1")>>>>)}

Statuses == {199, 200, 201, 299, 300, 400, 401, 404, 500}

\* bodies as the service sends them on errors, and some it might send
ErrorBodies ==
    {Dict(<<>>),
     Dict(<<<<"message", Str("bad phone")>>>>),
     Dict(<<<<"error", Dict(<<<<"message", Str("bad phone")>>>>)>>>>),
     Dict(<<<<"error", Dict(<<<<"message", Str("")>>>>)>>>>),
     Dict(<<<<"error", Dict(<<<<"message", Num(0)>>>>)>>>>),
     Dict(<<<<"status", Str("failed")>>, <<"error", Dict(<<<<"message", Str("bad phone")>>>>)>>>>),
     Dict(<<<<"detail", Dict(<<>>)>>, <<"error", Dict(<<<<"message", Str("bad phone")>>>>)>>>>),
     Dict(<<<<"error", Dict(<<<<"message", Str("inner")>>>>)>>, <<"message", Str("outer")>>>>),
     Dict(<<<<"error", Dict(<<<<"code", Num(7)>>>>)>>>>)}

\* a list-or-scalar-or-absent field as the service sends it: left out, one
\* item that is a string or a mapping, or a list of items
Absent == [t |-> "absent", v |-> <<>>]
FieldShapes ==
    {Absent, Str("x"), Dict(<<<<"id", Str("x")>>>>)}
        \cup {List([i \in 1..n |-> Num(i)]) : n \in 0..MaxListLen}

\* a mapping with the given fields, those left out by the service left out
RECURSIVE Struct(_, _)
Struct(names, shapes) ==
    IF names = <<>> THEN Dict(<<>>)
    ELSE LET rest == Struct(Tail(names), Tail(shapes)) IN
         IF Head(shapes) = Absent THEN rest
         ELSE Dict(<<<<Head(names), Head(shapes)>>>> \o rest.v)

Wrapped(wrapper, struct) == Dict(<<<<wrapper, struct>>>>)

\* the bodies of successful answers, per endpoint function
SuccessBodies(fn) ==
    CASE fn = "network_id_list" ->
           {Wrapped("NetworkidListResponse", Struct(<<"status", "networkids">>, <<Str("ok"), a>>))
                : a \in FieldShapes}
      [] fn = "conference_list" ->
           {Wrapped("ConferenceListResponse", Struct(<<"active", "inactive">>, <<a, b>>))
                : a \in FieldShapes, b \in FieldShapes}
      [] fn = "media_list" ->
           {Wrapped("MediaidListResponse", Struct(<<"uploaded", "recorded">>, <<a, b>>))
                : a \in FieldShapes, b \in FieldShapes}
      [] fn = "conference_details" ->
           {Wrapped("ConferenceDetailsResponse", Struct(<<"status", "participants">>, <<Str("active"), a>>))
                : a \in FieldShapes}
             \cup {Wrapped("ConferenceDetailsResponse", Str("closed"))}
      [] fn = "conference_create" ->
           {Wrapped("ConferenceResponse", Dict(<<<<"conferenceId", Str("c1")>>>>))}
      [] fn \in {"media_create", "media_status"} ->
           {Wrapped("MediaResponse", Dict(<<<<"mediaId", Str("m1")>>, <<"downloadUrl", Str("http://dl/m1")>>>>))}
      [] fn = "media_request_upload_grant" ->
           {Wrapped("UploadResponse", Dict(<<<<"grantId", Str("gr1")>>>>))}
      [] OTHER ->
           {Wrapped("Response", Dict(<<<<"status", Str("ok")>>>>))}

Payloads(fn) ==
    {JsonPayload(b) : b \in ErrorBodies \cup SuccessBodies(fn)}
        \cup {TextPayload("bad"), BytesPayload}

\* everything the server may do with one request of the function
Answers(fn) ==
    {HttpAnswer(s, p) : s \in Statuses, p \in Payloads(fn)} \cup {NoAnswer}

\* the raw bodies of GET version
VersionTexts == {"2.4.1", "1.3.10", "2.4", "2..1", "bad", ""}

VersionAnswers ==
    {HttpAnswer(st, p) : st \in Statuses,
                         p \in {TextPayload(x) : x \in VersionTexts}
                               \cup {JsonPayload(Dict(<<>>)), BytesPayload}}
        \cup {NoAnswer}

\* the helpers: a grant, a local file and what it holds, the fetch of a url
GrantIds    == {Str("gr1")}
FilePaths   == {Path("/tmp/", "a.mp3")}
FileBytes   == {"ID3"}

UploadAnswers ==
    {HttpAnswer(st, pl) : st \in Statuses,
                          pl \in {JsonPayload(Dict(<<>>)), TextPayload("bad"), BytesPayload}}
        \cup {NoAnswer}

\* the status lookup of download_file: also a MediaResponse with no url, with
\* an empty url, and one that is no mapping
DownloadAnswers ==
    Answers("media_status")
        \cup {HttpAnswer(200, JsonPayload(Wrapped("MediaResponse", b))) :
                 b \in {Dict(<<<<"mediaId", Str("m1")>>>>),
                        Dict(<<<<"downloadUrl", Str("")>>>>),
                        Str("gone")}}

FetchAnswers == {HttpAnswer(200, BytesPayload), HttpAnswer(404, TextPayload("bad")), NoAnswer}

----------------------------------------------------------------------------
(* The state machine.                                                      *)

NoCall   == [fn |-> "", args |-> <<>>]
NoResult == Ok(None)
\* no access of a wrapper property came just before
NoAccess == [fn |-> "", out |-> NoResult]

\* the client as the methods see it, with the runtime it runs on
Self == [appkey |-> appkey, host |-> host, hasReason |-> httpErrorHasReason,
         strIsBytes |-> strIsBytes]

\* SimpleClient.__init__; the caller's mapping; the runtime
Init ==
    /\ appkey \in AppKeys
    /\ \E https \in BOOLEAN :
           host = <<IF https THEN "https://" ELSE "http://", HostName>>
    /\ httpErrorHasReason \in BOOLEAN
    /\ query \in CallerQueries
    /\ pc = "idle"
    /\ call = NoCall
    /\ request = <<>>
    /\ resp = NoResult
    /\ outcome = NoResult
    /\ dfData = Dict(<<>>)
    /\ dfResult = NoResult
    /\ strIsBytes \in BOOLEAN
    /\ direct = <<>>
    /\ written = <<>>
    /\ printed = <<>>
    /\ label = "unmuted"
    /\ earlier = NoAccess

\* an end of a call that puts the first key back
Finish_ResetsKey(fn, args, r) ==
    /\ pc' = "done"
    /\ call' = [fn |-> fn, args |-> args]
    /\ request' = r.reqs
    /\ resp' = r.resp
    /\ outcome' = r.out
    /\ appkey' = "key1"
    /\ UNCHANGED <<host, httpErrorHasReason, query, dfData, dfResult,
                   strIsBytes, label, earlier, direct, written, printed>>

\* a call of an endpoint function ends: its result is there for the caller
Finish(fn, args, r) ==
    /\ pc' = "done"
    /\ call' = [fn |-> fn, args |-> args]
    /\ request' = r.reqs
    /\ resp' = r.resp
    /\ outcome' = r.out
    /\ UNCHANGED <<appkey, host, httpErrorHasReason, query, dfData, dfResult,
                   strIsBytes, label, earlier, direct, written, printed>>

\* the caller is done with the result of the call
Discard ==
    /\ pc = "done"
    /\ pc' = "idle"
    /\ call' = NoCall
    /\ request' = <<>>
    /\ resp' = NoResult
    /\ outcome' = NoResult
    /\ direct' = <<>>
    /\ written' = <<>>
    /\ printed' = <<>>
    /\ earlier' = NoAccess
    /\ UNCHANGED <<appkey, host, httpErrorHasReason, query, dfData, dfResult,
                   strIsBytes, label>>

\* the appkey setter
SetAppkey ==
    /\ pc = "idle"
    /\ \E key \in AppKeys : appkey' = key
    /\ UNCHANGED <<host, httpErrorHasReason, query, pc, call, request, resp,
                   outcome, dfData, dfResult, strIsBytes, label, earlier, direct, written,
                   printed>>

\* get/post/delete called with no mapping or with the caller's own one, which
\* _do_raw writes to when it is the object it works on
Transport(fn, method) ==
    /\ pc = "idle"
    /\ \E q \in {None, query}, ans \in Answers(fn) :
         LET t == _do(Self, <<"registrant">>, q, method, ans) IN
         /\ pc' = "done"
         /\ call' = [fn |-> fn, args |-> <<q>>]
         /\ request' = <<t.rec>>
         /\ resp' = t.out
         /\ outcome' = t.out
         /\ query' = IF q = query /\ SameObject(q) THEN t.rec.sent ELSE query
         /\ UNCHANGED <<appkey, host, httpErrorHasReason, dfData, dfResult,
                        strIsBytes, label, earlier, direct, written, printed>>

Get    == Transport("get", "get")
Post   == Transport("post", "post")
Delete == Transport("delete", "delete")

NetworkIdRegister ==
    /\ pc = "idle"
    /\ \E n \in NetworkIds, phone \in OptStrings, g \in OptStrings,
          ans \in Answers("network_id_register") :
         Finish("network_id_register", <<n, phone, g>>,
                network_id_register(Self, n, phone, g, ans))

NetworkIdStatus ==
    /\ pc = "idle"
    /\ \E n \in NetworkIds, related \in OptFlags, ans \in Answers("network_id_status") :
         Finish("network_id_status", <<n, related>>,
                network_id_status(Self, n, related, ans))

NetworkIdList ==
    /\ pc = "idle"
    /\ \E ans \in Answers("network_id_list") :
         Finish("network_id_list", <<>>, network_id_list(Self, ans))

NetworkIdChange ==
    /\ pc = "idle"
    /\ \E n \in NetworkIds, phone \in Phones, ans \in Answers("network_id_change") :
         Finish("network_id_change", <<n, phone>>,
                network_id_change(Self, n, phone, ans))

NetworkIdDelete ==
    /\ pc = "idle"
    /\ \E n \in NetworkIds, ans \in Answers("network_id_delete") :
         Finish("network_id_delete", <<n>>, network_id_delete(Self, n, ans))

ConferenceCreate ==
    /\ pc = "idle"
    /\ \E n \in NetworkIds, g \in OptStrings, rec \in OptStrings,
          ans \in Answers("conference_create") :
         Finish("conference_create", <<n, g, rec>>,
                conference_create(Self, n, g, rec, ans))

ConferenceAdd ==
    /\ pc = "idle"
    /\ \E c \in ConfIds, n \in NetworkIds, g \in OptStrings, muted \in OptFlags,
          ans \in Answers("conference_add") :
         Finish("conference_add", <<c, n, g, muted>>,
                conference_add(Self, c, n, g, muted, ans))

ConferenceClose ==
    /\ pc = "idle"
    /\ \E c \in ConfIds, ans \in Answers("conference_close") :
         Finish("conference_close", <<c>>, conference_close(Self, c, ans))

ConferenceHangup ==
    /\ pc = "idle"
    /\ \E c \in ConfIds, n \in NetworkIds, ans \in Answers("conference_hangup") :
         Finish("conference_hangup", <<c, n>>, conference_hangup(Self, c, n, ans))

ConferenceMove ==
    /\ pc = "idle"
    /\ \E c \in ConfIds, to \in {Str("c2")}, n \in NetworkIds,
          ans \in Answers("conference_move") :
         Finish("conference_move", <<c, to, n>>, conference_move(Self, c, to, n, ans))

ConferenceMute ==
    /\ pc = "idle"
    /\ \E c \in ConfIds, n \in NetworkIds, mute \in OptFlags,
          ans \in Answers("conference_mute") :
         Finish("conference_mute", <<c, n, mute>>,
                conference_mute(Self, c, n, mute, ans))

ConferenceUnmute ==
    /\ pc = "idle"
    /\ \E c \in ConfIds, n \in NetworkIds, ans \in Answers("conference_unmute") :
         Finish("conference_unmute", <<c, n>>, conference_unmute(Self, c, n, ans))

ConferenceList ==
    /\ pc = "idle"
    /\ \E active \in OptFlags, ans \in Answers("conference_list") :
         Finish("conference_list", <<active>>, conference_list(Self, active, ans))

ConferenceDetails ==
    /\ pc = "idle"
    /\ \E c \in ConfIds, ans \in Answers("conference_details") :
         Finish("conference_details", <<c>>, conference_details(Self, c, ans))

MediaCreate ==
    /\ pc = "idle"
    /\ \E ans \in Answers("media_create") :
         Finish("media_create", <<>>, media_create(Self, ans))

MediaRecord ==
    /\ pc = "idle"
    /\ \E m \in MediaIds, n \in NetworkIds, g \in OptStrings,
          ans \in Answers("media_record") :
         Finish("media_record", <<m, n, g>>, media_record(Self, m, n, g, ans))

MediaBlast ==
    /\ pc = "idle"
    /\ \E ids \in BlastIds, n \in NetworkIds, g \in OptStrings,
          ans \in Answers("media_blast") :
         Finish("media_blast", <<ids, n, g>>, media_blast(Self, ids, n, g, ans))

MediaStatus ==
    /\ pc = "idle"
    /\ \E m \in MediaIds, ans \in Answers("media_status") :
         Finish("media_status", <<m>>, media_status(Self, m, ans))

MediaRequestUploadGrant ==
    /\ pc = "idle"
    /\ \E m \in MediaIds, ans \in Answers("media_request_upload_grant") :
         Finish("media_request_upload_grant", <<m>>,
                media_request_upload_grant(Self, m, ans))

MediaRemove ==
    /\ pc = "idle"
    /\ \E m \in MediaIds, ans \in Answers("media_remove") :
         Finish("media_remove", <<m>>, media_remove(Self, m, ans))

MediaList ==
    /\ pc = "idle"
    /\ \E ans \in Answers("media_list") :
         Finish("media_list", <<>>, media_list(Self, ans))

\* a call of a helper ends
FinishHelper(fn, args, r) ==
    /\ pc' = "done"
    /\ call' = [fn |-> fn, args |-> args]
    /\ request' = r.reqs
    /\ resp' = r.resp
    /\ outcome' = r.out
    /\ direct' = r.direct
    /\ written' = r.written
    /\ printed' = r.printed
    /\ UNCHANGED <<appkey, host, httpErrorHasReason, query, dfData, dfResult,
                   strIsBytes, label, earlier>>

UploadFile ==
    /\ pc = "idle"
    /\ \E g \in GrantIds, path \in FilePaths, content \in FileBytes,
          ans \in UploadAnswers :
         FinishHelper("upload_file", <<g, path>>,
                      upload_file(Self, g, path, content, ans))

DownloadFile ==
    /\ pc = "idle"
    /\ \E m \in MediaIds, path \in FilePaths, ans \in DownloadAnswers,
          fetched \in FetchAnswers :
         FinishHelper("download_file", <<m, path>>,
                      download_file(Self, m, path, ans, fetched))

Version ==
    /\ pc = "idle"
    /\ \E ans \in VersionAnswers : Finish("version", <<>>, version(Self, ans))

Next ==
    \/ SetAppkey
    \/ Discard
    \/ Get
    \/ Post
    \/ Delete
    \/ NetworkIdRegister
    \/ NetworkIdStatus
    \/ NetworkIdList
    \/ NetworkIdChange
    \/ NetworkIdDelete
    \/ ConferenceCreate
    \/ ConferenceAdd
    \/ ConferenceClose
    \/ ConferenceHangup
    \/ ConferenceMove
    \/ ConferenceMute
    \/ ConferenceUnmute
    \/ ConferenceList
    \/ ConferenceDetails
    \/ MediaCreate
    \/ MediaRecord
    \/ MediaBlast
    \/ MediaStatus
    \/ MediaRequestUploadGrant
    \/ MediaRemove
    \/ MediaList
    \/ Version
    \/ UploadFile
    \/ DownloadFile

Spec == Init /\ [][Next]_vars

----------------------------------------------------------------------------
(* The wrappers at work: a RichClient, the handles it makes, their methods *)
(* and their properties.  A property may be read again right after it was  *)
(* read: `earlier` then holds what the access before returned or raised.   *)

NetworkIdMethods  == {"NetworkId.blast", "NetworkId.record", "NetworkId.add",
                      "NetworkId.hangup", "NetworkId.move", "NetworkId.mute",
                      "NetworkId.unmute"}
ConferenceMethods == {"Conference.add", "Conference.close", "Conference.hangup",
                      "Conference.move", "Conference.mute", "Conference.unmute"}
MediaMethods      == {"Media.record", "Media.blast", "Media.status", "Media.remove"}
WrapperMethods    == NetworkIdMethods \cup ConferenceMethods \cup MediaMethods
Properties        == {"NetworkId.exists", "NetworkId.related", "Media.content_exists",
                      "Media.download_url", "Media.size", "Media.upload_grant"}

\* the ids a wrapper of the method's class is bound to
BoundIds(m) ==
    CASE m \in NetworkIdMethods \cup {"NetworkId.exists", "NetworkId.related"} -> NetworkIds
      [] m \in ConferenceMethods -> ConfIds
      [] OTHER -> MediaIds

\* the arguments a method is called with
WrapperArgs(m) ==
    CASE m = "NetworkId.blast" -> {<<ids, g>> : ids \in BlastIds, g \in OptStrings}
      [] m = "NetworkId.record" -> {<<x, g>> : x \in MediaIds, g \in OptStrings}
      [] m = "NetworkId.add" -> {<<x, g>> : x \in ConfIds, g \in OptStrings}
      [] m \in {"NetworkId.hangup", "NetworkId.mute", "NetworkId.unmute"} ->
           {<<x>> : x \in ConfIds}
      [] m = "NetworkId.move" -> {<<x, Str("c2")>> : x \in ConfIds}
      [] m \in {"Conference.add", "Media.record", "Media.blast"} ->
           {<<n, g>> : n \in NetworkIds, g \in OptStrings}
      [] m \in {"Conference.hangup", "Conference.mute", "Conference.unmute"} ->
           {<<n>> : n \in NetworkIds}
      [] m = "Conference.move" -> {<<Str("c2"), n>> : n \in NetworkIds}
      [] OTHER -> {<<>>}

\* the SimpleClient function a method or a property calls
EndpointOf(m) ==
    CASE m \in {"NetworkId.blast", "Media.blast"}    -> "media_blast"
      [] m \in {"NetworkId.record", "Media.record"}  -> "media_record"
      [] m \in {"NetworkId.add", "Conference.add"}   -> "conference_add"
      [] m \in {"NetworkId.hangup", "Conference.hangup"} -> "conference_hangup"
      [] m \in {"NetworkId.move", "Conference.move"} -> "conference_move"
      [] m \in {"NetworkId.mute", "Conference.mute"} -> "conference_mute"
      [] m \in {"NetworkId.unmute", "Conference.unmute"} -> "conference_unmute"
      [] m = "Conference.close" -> "conference_close"
      [] m = "Media.remove"     -> "media_remove"
      [] m \in {"NetworkId.exists", "NetworkId.related"} -> "network_id_status"
      [] m = "Media.upload_grant" -> "media_request_upload_grant"
      [] OTHER -> "media_status"

\* the answers to the request of a property: a few statuses, each with the
\* body of a success (for a media status also one that tells the size), an
\* empty body or an error message; or no response
PropertyStatuses == {200, 201, 401, 404, 500}

PropertyBodies(m) ==
    SuccessBodies(EndpointOf(m))
        \cup {Dict(<<>>), Dict(<<<<"message", Str("bad phone")>>>>)}
        \cup IF EndpointOf(m) = "media_status"
             THEN {Wrapped("MediaResponse",
                           Dict(<<<<"downloadUrl", Str("http://dl/m2")>>,
                                  <<"fileSize", Num(7)>>>>))}
             ELSE {}

PropertyAnswers(m) ==
    {HttpAnswer(st, JsonPayload(b)) : st \in PropertyStatuses, b \in PropertyBodies(m)}
        \cup {NoAnswer}

\* RichClient.__init__ makes the SimpleClient; no handle is used yet
InitRich ==
    /\ appkey \in AppKeys
    /\ host = <<"https://", HostName>>
    /\ httpErrorHasReason \in BOOLEAN
    /\ query = Dict(<<>>)
    /\ pc = "idle"
    /\ call = NoCall
    /\ request = <<>>
    /\ resp = NoResult
    /\ outcome = NoResult
    /\ dfData = Dict(<<>>)
    /\ dfResult = NoResult
    /\ strIsBytes = FALSE
    /\ direct = <<>>
    /\ written = <<>>
    /\ printed = <<>>
    /\ label = "unmuted"
    /\ earlier = NoAccess

WrapperMethod ==
    /\ pc = "idle"
    /\ \E m \in WrapperMethods :
       \E id \in BoundIds(m), a \in WrapperArgs(m), ans \in Answers(EndpointOf(m)) :
         Finish(m, <<id>> \o a,
                CASE m \in NetworkIdMethods  -> NetworkId_method(Self, id, m, a, ans)
                  [] m \in ConferenceMethods -> Conference_method(Self, id, m, a, ans)
                  [] OTHER                   -> Media_method(Self, id, m, a, ans))

\* a property is read: for the first time, or once more right after it was
ReadProperty ==
    /\ pc = "idle" \/ (pc = "done" /\ call.fn \in Properties)
    /\ \E m \in IF pc = "idle" THEN Properties ELSE {call.fn} :
       \E id \in BoundIds(m), ans \in PropertyAnswers(m) :
         LET r == Property(Self, id, m, ans) IN
         /\ pc' = "done"
         /\ call' = [fn |-> m, args |-> <<id>>]
         /\ request' = r.reqs
         /\ resp' = r.resp
         /\ outcome' = r.out
         /\ earlier' = IF pc = "done" THEN [fn |-> call.fn, out |-> outcome]
                       ELSE NoAccess
    /\ UNCHANGED <<appkey, host, httpErrorHasReason, query, dfData, dfResult,
                   strIsBytes, direct, written, printed, label>>

RegisterNetworkId ==
    /\ pc = "idle"
    /\ \E n \in NetworkIds, phone \in OptStrings, g \in OptStrings,
          ans \in Answers("network_id_register") :
         Finish("register_network_id", <<n, phone, g>>,
                register_network_id(Self, n, phone, g, ans))

CreateConference ==
    /\ pc = "idle"
    /\ \E n \in NetworkIds, g \in OptStrings, rec \in OptStrings,
          ans \in Answers("conference_create") :
         Finish("create_conference", <<n, g, rec>>,
                create_conference(Self, n, g, rec, ans))

CreateMedia ==
    /\ pc = "idle"
    /\ \E ans \in Answers("media_create") :
         Finish("create_media", <<>>, create_media(Self, ans))

NextRich ==
    \/ Discard
    \/ SetAppkey
    \/ WrapperMethod
    \/ ReadProperty
    \/ RegisterNetworkId
    \/ CreateConference
    \/ CreateMedia

SpecRich == InitRich /\ [][NextRich]_vars

----------------------------------------------------------------------------
(* The GUI example (examples/telesocial-gui.py): the mute button, pressed   *)
(* with a participant of a conference selected.                            *)

TelesocialErrors == {"TelesocialServiceError", "TelesocialNetworkError"}

\* the label a participant does not show now
OtherLabel(muted) == IF muted = "unmuted" THEN "muted" ELSE "unmuted"

\* the handler with setText ahead of the call of the client
on_buttonConferenceMute_released_SetFirst(self, muted, conference_id, network_id, ans) ==
    LET r == IF muted = "unmuted"
             THEN conference_mute(self, conference_id, network_id, Bool(TRUE), ans)
             ELSE conference_unmute(self, conference_id, network_id, ans)
    IN  [reqs |-> r.reqs, resp |-> r.resp, out |-> r.out,
         text |-> OtherLabel(muted),
         printed |-> <<Str("muting network id in conference")>>
                        \o IF r.out.raised /\ r.out.exc.cls \in TelesocialErrors
                           THEN <<r.out.exc>> ELSE <<>>]

\* the handler: muted is item.text(1); out is what the call of the client
\* returned or raised, text the label afterwards; a TelesocialError is caught
\* and printed, any other exception leaves the handler
on_buttonConferenceMute_released(self, muted, conference_id, network_id, ans) ==
    LET r == IF muted = "unmuted"
             THEN conference_mute(self, conference_id, network_id, Bool(TRUE), ans)
             ELSE conference_unmute(self, conference_id, network_id, ans)
    IN  [reqs |-> r.reqs, resp |-> r.resp, out |-> r.out,
         text |-> IF r.out.raised THEN muted ELSE OtherLabel(muted),
         printed |-> <<Str("muting network id in conference")>>
                        \o IF r.out.raised /\ r.out.exc.cls \in TelesocialErrors
                           THEN <<r.out.exc>> ELSE <<>>]

\* the window with its client; a participant is listed as "unmuted"
InitGui ==
    /\ appkey \in AppKeys
    /\ host = <<"https://", HostName>>
    /\ httpErrorHasReason \in BOOLEAN
    /\ query = Dict(<<>>)
    /\ pc = "idle"
    /\ call = NoCall
    /\ request = <<>>
    /\ resp = NoResult
    /\ outcome = NoResult
    /\ dfData = Dict(<<>>)
    /\ dfResult = NoResult
    /\ strIsBytes = FALSE
    /\ direct = <<>>
    /\ written = <<>>
    /\ printed = <<>>
    /\ label = "unmuted"
    /\ earlier = NoAccess

\* a press of the mute button
PressMute ==
    /\ pc = "idle"
    /\ \E c \in ConfIds, n \in NetworkIds, ans \in Answers("conference_mute") :
         LET r == on_buttonConferenceMute_released(Self, label, c, n, ans) IN
         /\ pc' = "done"
         /\ call' = [fn |-> "on_buttonConferenceMute_released", args |-> <<c, n>>]
         /\ request' = r.reqs
         /\ resp' = r.resp
         /\ outcome' = r.out
         /\ label' = r.text
         /\ printed' = r.printed
    /\ UNCHANGED <<appkey, host, httpErrorHasReason, query, dfData, dfResult,
                   strIsBytes, direct, written, earlier>>

NextGui ==
    \/ Discard
    \/ PressMute

SpecGui == InitGui /\ [][NextGui]_vars

----------------------------------------------------------------------------
(* deep_find on its own: the data is drawn from all nested mappings of at  *)
(* most MaxEntries entries over a few keys and leaf values.                *)

DeepKeys   == {"message", "error", "detail"}
DeepLeaves == {Str("oops"), Str(""), Num(0)}

RECURSIVE ItemsOfSize(_)
\* the leaf values and empty mapping (size 0), or the mappings of n entries
ValuesOfSize(n) ==
    IF n = 0 THEN DeepLeaves \cup {Dict(<<>>)}
    ELSE {Dict(items) : items \in ItemsOfSize(n)}

\* the item sequences, keys distinct, that hold n entries at all depths
ItemsOfSize(n) ==
    IF n = 0 THEN {<<>>}
    ELSE UNION {
           UNION {
             {<<<<k, val>>>> \o rest :
                 k \in {kk \in DeepKeys : \A i \in 1..Len(rest) : rest[i][1] # kk},
                 val \in ValuesOfSize(m)}
             : rest \in ItemsOfSize(n - 1 - m) }
           : m \in 0..(n - 1) }

DeepFindInputs == UNION {ValuesOfSize(n) : n \in 1..MaxEntries} \cup {Dict(<<>>)}

NotRun == [raised |-> FALSE, val |-> Str("<not run>"), exc |-> NoExc]

InitDeepFind ==
    /\ appkey = "key1"
    /\ host = <<"https://", HostName>>
    /\ httpErrorHasReason = TRUE
    /\ query = Dict(<<>>)
    /\ pc = "idle"
    /\ call = NoCall
    /\ request = <<>>
    /\ resp = NoResult
    /\ outcome = NoResult
    /\ dfData \in DeepFindInputs
    /\ dfResult = NotRun
    /\ strIsBytes = FALSE
    /\ direct = <<>>
    /\ written = <<>>
    /\ printed = <<>>
    /\ label = "unmuted"
    /\ earlier = NoAccess

\* deep_find(data, 'message')
DeepFind ==
    /\ dfResult = NotRun
    /\ dfResult' = deep_find(dfData, "message")
    /\ UNCHANGED <<appkey, host, httpErrorHasReason, query, pc, call, request,
                   resp, outcome, dfData, strIsBytes, label, earlier, direct, written, printed>>

NextDeepFind == DeepFind

SpecDeepFind == InitDeepFind /\ [][NextDeepFind]_vars

----------------------------------------------------------------------------
(* Vocabulary of the properties.                                           *)

TransportFns == {"get", "post", "delete"}
ListFns      == {"network_id_list", "conference_list", "media_list"}

Done         == pc = "done"
\* the functions of SimpleClient that put a status policy on one request
EndpointFns  ==
    {"network_id_register", "network_id_status", "network_id_list",
     "network_id_change", "network_id_delete", "conference_create",
     "conference_add", "conference_close", "conference_hangup",
     "conference_move", "conference_mute", "conference_unmute",
     "conference_list", "conference_details", "media_create", "media_record",
     "media_blast", "media_status", "media_request_upload_grant",
     "media_remove", "media_list"}

EndpointDone == pc = "done" /\ call.fn \in EndpointFns
\* the transport handed a Response to the function called
GotResponse  == pc = "done" /\ ~resp.raised
Returned     == pc = "done" /\ ~outcome.raised

\* the statuses a function accepts (its `if` before `return res`)
AcceptedBy(fn, code) ==
    CASE fn \in ListFns \cup {"network_id_delete"} -> code = 200
      [] fn = "network_id_status"                   -> code \in {200, 401, 404}
      [] OTHER                                      -> 200 <= code /\ code < 300

\* the wrapper and the list-or-scalar-or-absent fields of a list endpoint
WrapperOf(fn) ==
    CASE fn = "network_id_list" -> "NetworkidListResponse"
      [] fn = "conference_list" -> "ConferenceListResponse"
      [] fn = "media_list"      -> "MediaidListResponse"
      [] OTHER                  -> ""

ListFieldsOf(fn) ==
    CASE fn = "network_id_list" -> {"networkids"}
      [] fn = "conference_list" -> {"active", "inactive"}
      [] fn = "media_list"      -> {"uploaded", "recorded"}
      [] OTHER                  -> {}

\* a mapping without the given keys
Without(struct, keys) == Dict(SelectSeq(struct.v, LAMBDA it : it[1] \notin keys))

\* a body without the list fields of its wrapper
StripLists(fn, data) ==
    IF HasKey(data, WrapperOf(fn)) /\ IsDict(Item(data, WrapperOf(fn)))
    THEN Put(data, WrapperOf(fn), Without(Item(data, WrapperOf(fn)), ListFieldsOf(fn)))
    ELSE data

\* the field of `after` is the list made of the field of `before`
ListOf(before, after, field) ==
    /\ HasKey(after, field)
    /\ Item(after, field) =
         IF ~HasKey(before, field) THEN List(<<>>)
         ELSE IF IsList(Item(before, field)) THEN Item(before, field)
         ELSE List(<<Item(before, field)>>)

\* the field of `after` is what it was in `before`, there or not
Untouched(before, after, field) ==
    /\ HasKey(after, field) = HasKey(before, field)
    /\ HasKey(before, field) => Item(after, field) = Item(before, field)

RECURSIVE HasDeep(_, _)
\* the key is present at some depth of the nested mappings
HasDeep(data, key) ==
    \/ HasKey(data, key)
    \/ \E i \in 1..Len(data.v) : IsDict(data.v[i][2]) /\ HasDeep(data.v[i][2], key)

RECURSIVE ValuesUnder(_, _)
\* the values stored under the key, at all depths
ValuesUnder(data, key) ==
    {data.v[i][2] : i \in {j \in 1..Len(data.v) : data.v[j][1] = key}}
        \cup UNION {ValuesUnder(data.v[i][2], key) :
                        i \in {j \in 1..Len(data.v) : IsDict(data.v[j][2])}}

RECURSIVE FirstDepthFirst(_, _, _)
\* the value of the first `key` met going depth-first through the items from i on
FirstDepthFirst(data, key, i) ==
    IF data.v[i][1] = key THEN data.v[i][2]
    ELSE IF IsDict(data.v[i][2]) /\ HasDeep(data.v[i][2], key)
         THEN FirstDepthFirst(data.v[i][2], key, 1)
         ELSE FirstDepthFirst(data, key, i + 1)

----------------------------------------------------------------------------
(* The properties, by the number of the statement each one settles.        *)

\* C1: whenever the transport hands an endpoint function a status outside the
\* function's accepted range or set, whatever the body, the call raises a
\* TelesocialServiceError whose code is that status.
C1_RejectedStatusRaisesServiceError ==
    (EndpointDone /\ GotResponse /\ ~AcceptedBy(call.fn, Code(resp.val)))
        => /\ outcome.raised
           /\ outcome.exc.cls = "TelesocialServiceError"
           /\ outcome.exc.code = Num(Code(resp.val))

\* C2: whenever the transport hands an endpoint function a status the function
\* accepts, the function returns a Response with that status and the body as
\* parsed, but for the list-normalized fields of the list endpoints.
C2_AcceptedStatusReturnsBody ==
    (EndpointDone /\ GotResponse /\ AcceptedBy(call.fn, Code(resp.val)))
        => /\ ~outcome.raised
           /\ Code(outcome.val) = Code(resp.val)
           /\ StripLists(call.fn, Data(outcome.val)) = StripLists(call.fn, Data(resp.val))

\* C3 as stated: a list endpoint that returns on a 200 response has made a list
\* of each of its list-or-scalar-or-absent fields, for every argument value.
C3_EveryListFieldIsList ==
    (EndpointDone /\ call.fn \in ListFns /\ GotResponse /\ Returned)
        => \A f \in ListFieldsOf(call.fn) :
               ListOf(Item(Data(resp.val), WrapperOf(call.fn)),
                      Item(Data(outcome.val), WrapperOf(call.fn)), f)

\* the fields conference_list normalizes, by its argument
NormalizedBy(fn, args) ==
    IF fn = "conference_list" /\ ~EqFalse(args[1]) THEN {"active"}
    ELSE ListFieldsOf(fn)

\* C3 as amended: a list endpoint that returns on a 200 response has made a list
\* of each of its list-or-scalar-or-absent fields (absent -> [], x -> [x], a
\* list left alone), except that conference_list called with an `active` that
\* is not equal to False leaves `inactive` as the server sent it.
C3_ListFieldsNormalized ==
    (EndpointDone /\ call.fn \in ListFns /\ GotResponse /\ Returned)
        => /\ Code(outcome.val) = 200
           /\ \A f \in NormalizedBy(call.fn, call.args) :
                  ListOf(Item(Data(resp.val), WrapperOf(call.fn)),
                         Item(Data(outcome.val), WrapperOf(call.fn)), f)
           /\ \A f \in ListFieldsOf(call.fn) \ NormalizedBy(call.fn, call.args) :
                  Untouched(Item(Data(resp.val), WrapperOf(call.fn)),
                            Item(Data(outcome.val), WrapperOf(call.fn)), f)

\* conference_list(active=True) has returned a body whose `inactive` is the
\* lone item the server sent
C3_Witness ==
    /\ EndpointDone /\ call.fn = "conference_list" /\ call.args = <<Bool(TRUE)>>
    /\ GotResponse /\ Returned
    /\ Item(Data(outcome.val), "ConferenceListResponse")
         = Dict(<<<<"active", List(<<Str("x")>>)>>, <<"inactive", Str("x")>>>>)

\* C4: when the body of a rejected response holds a `message` key at some
\* depth, the error raised is a service error whose message is the value of the
\* first `message` met going depth-first through the body.
C4_MessageIsFirstDepthFirst ==
    (EndpointDone /\ GotResponse /\ ~AcceptedBy(call.fn, Code(resp.val))
        /\ HasDeep(Data(resp.val), "message"))
        => /\ outcome.raised
           /\ outcome.exc.cls = "TelesocialServiceError"
           /\ outcome.exc.message = FirstDepthFirst(Data(resp.val), "message", 1)

\* C5: deep_find returns a value stored under the key whenever the key is
\* present at some depth, falsy values included.
C5_DeepFindFindsPresentKey ==
    (dfResult # NotRun /\ HasDeep(dfData, "message"))
        => /\ ~dfResult.raised
           /\ dfResult.val \in ValuesUnder(dfData, "message")

\* C6: whenever the server answers the request of get/post/delete with a status,
\* the call returns Response(status, body), body being the decoded payload when
\* it decodes and the empty mapping otherwise, and does not raise.
C6_AnswerBecomesResponse ==
    (Done /\ call.fn \in TransportFns /\ request[1].ans.got)
        => /\ ~outcome.raised
           /\ outcome.val =
                Response(request[1].ans.status,
                         IF request[1].ans.payload.enc = "json"
                         THEN request[1].ans.payload.doc ELSE Dict(<<>>))

\* C7: a request that obtains no response fails with a TelesocialNetworkError
\* wrapping the failure, whose string form is the failure's; and a request the
\* server answered never ends in a TelesocialNetworkError.
C7_NetworkErrorIffNoAnswer ==
    Done => \A i \in 1..Len(request) :
        /\ ~request[i].ans.got
             => /\ outcome.raised
                /\ outcome.exc.cls = "TelesocialNetworkError"
                /\ outcome.exc.original = "URLError"
                /\ ErrStr(outcome.exc) = <<"URLError">>
        /\ request[i].ans.got
             => ~(outcome.raised /\ outcome.exc.cls = "TelesocialNetworkError")

\* the parameters that travel with a request: in its body or in its query string
Carried(req) == IF req.data.present THEN req.data.body ELSE req.uri.qs

\* C8: every request carries an appkey parameter: the client's current key when
\* the mapping given holds none, the given one, untouched, when it holds one.
C8_AppkeyCarried ==
    Done => \A i \in 1..Len(request) :
        LET r     == request[i]
            given == ParamsOrEmpty(r.given)
            key   == IF HasKey(given, "appkey") THEN Item(given, "appkey")
                     ELSE Str(appkey)
        IN  /\ HasKey(r.sent, "appkey")
            /\ Item(r.sent, "appkey") = key
            /\ \E j \in 1..Len(Carried(r.req)) :
                   Carried(r.req)[j] = <<"appkey", quote_plus(PyStr(key))>>
            /\ \A j \in 1..Len(Carried(r.req)) :
                   Carried(r.req)[j][1] = "appkey"
                       => Carried(r.req)[j][2] = quote_plus(PyStr(key))

\* post was given a mapping that holds the caller's own appkey
C8_Witness ==
    /\ Done /\ call.fn = "post" /\ Len(request) = 1
    /\ IsDict(request[1].given)
    /\ HasKey(request[1].given, "appkey")
    /\ Item(request[1].given, "appkey") = Str("callerkey")
    /\ request[1].req.data.present

\* C9: a request never carries a key of the client that is not its current one:
\* after the key is replaced, the next call sends the new key, also when the
\* caller passes the mapping it passed before.
C9_NeverTheOldKey ==
    Done => \A i \in 1..Len(request) :
        Item(request[i].sent, "appkey") \in {Str(k) : k \in AppKeys}
            => Item(request[i].sent, "appkey") = Str(appkey)

\* C10: the method sent is the tag in upper case; with POST the encoded
\* parameters are the body and the uri has no query string; with any other
\* method they are the query string and there is no body.
C10_BodyOrQueryString ==
    Done => \A i \in 1..Len(request) :
        LET r == request[i] IN
        /\ get_method(r.req) = Upper(r.method)
        /\ get_method(r.req) \in {"GET", "POST", "DELETE"}
        /\ r.method = "post"
             => /\ r.req.data = [present |-> TRUE, body |-> urlencode(r.sent)]
                /\ ~r.req.uri.hasQuery
                /\ r.req.uri.qs = <<>>
        /\ r.method # "post"
             => /\ r.req.uri.hasQuery
                /\ r.req.uri.qs = urlencode(r.sent)
                /\ ~r.req.data.present

\* network_id_delete has sent a DELETE whose parameters are in the query string
C10_Witness ==
    /\ Done /\ call.fn = "network_id_delete" /\ Len(request) = 1
    /\ get_method(request[1].req) = "DELETE"
    /\ request[1].req.uri.hasQuery
    /\ Len(request[1].req.uri.qs) > 0

\* C11: a call of an endpoint function (those of EndpointFns, and version)
\* issues exactly one request, through the transport, whatever its outcome:
\* an exception of the transport is the exception of the call, a rejected
\* status raises, and nothing is asked a second time.
C11_OneRequestNoRetry ==
    (Done /\ call.fn \in EndpointFns \cup {"version"}) =>
        /\ Len(request) = 1
        /\ direct = <<>>
        /\ resp.raised => outcome = resp
        /\ (call.fn \in EndpointFns /\ ~resp.raised
                /\ ~AcceptedBy(call.fn, Code(resp.val))) => outcome.raised

\* conference_close got no response: a network error after its one request
C11_Witness ==
    /\ Done /\ call.fn = "conference_close"
    /\ ~request[1].ans.got
    /\ outcome.raised /\ outcome.exc.cls = "TelesocialNetworkError"
    /\ Len(request) = 1

\* C12: network_id_status returns the Response it got exactly when the status
\* is 200, 401 or 404; with every other status, 201 included, it raises a
\* TelesocialServiceError.
C12_StatusAllowList ==
    (GotResponse /\ call.fn = "network_id_status") =>
        IF Code(resp.val) \in {200, 401, 404}
        THEN outcome = Ok(resp.val)
        ELSE outcome.raised /\ outcome.exc.cls = "TelesocialServiceError"

\* C13: each mutating operation returns the Response it got exactly when
\* 200 <= status < 300 (200 and 299 are accepted); with every other status
\* (199, 300) it raises a TelesocialServiceError.
MutatingFns ==
    {"network_id_register", "conference_create", "conference_add",
     "conference_close", "conference_hangup", "conference_move",
     "conference_mute", "conference_unmute", "media_record", "media_blast",
     "media_remove", "media_request_upload_grant"}

C13_MutatingAccept2xx ==
    (GotResponse /\ call.fn \in MutatingFns) =>
        IF 200 <= Code(resp.val) /\ Code(resp.val) < 300
        THEN outcome = Ok(resp.val)
        ELSE outcome.raised /\ outcome.exc.cls = "TelesocialServiceError"

\* C14: the list operations accept status 200 only: with any other status,
\* 201 included, they raise a TelesocialServiceError and return no body.
C14_ListsAccept200Only ==
    (GotResponse /\ call.fn \in ListFns /\ Code(resp.val) # 200) =>
        outcome.raised /\ outcome.exc.cls = "TelesocialServiceError"

\* C15: when a list endpoint or conference_details accepts the status of a
\* response, a body without the expected wrapper makes it raise a
\* TelesocialServiceError, and it raises nothing of another kind.
WrappedFns == ListFns \cup {"conference_details"}

ExpectedWrapper(fn) ==
    IF fn = "conference_details" THEN "ConferenceDetailsResponse" ELSE WrapperOf(fn)

C15_MissingWrapperIsServiceError ==
    (GotResponse /\ call.fn \in WrappedFns /\ AcceptedBy(call.fn, Code(resp.val))) =>
        /\ ~HasKey(Data(resp.val), ExpectedWrapper(call.fn))
             => outcome.raised /\ outcome.exc.cls = "TelesocialServiceError"
        /\ outcome.raised => outcome.exc.cls = "TelesocialServiceError"

\* the optional arguments of a function: the parameter each one becomes and
\* its place among the arguments of the call
OptionalArgs(fn) ==
    CASE fn = "network_id_register" -> {<<"phone", 2>>, <<"greetingid", 3>>}
      [] fn = "network_id_status"   -> {<<"query", 2>>}
      [] fn = "conference_create"   -> {<<"greetingid", 2>>, <<"recordingid", 3>>}
      [] fn = "conference_add"      -> {<<"greetingid", 3>>, <<"muted", 4>>}
      [] fn = "conference_list"     -> {<<"active", 1>>}
      [] fn = "media_record"        -> {<<"greetingid", 3>>}
      [] fn = "media_blast"         -> {<<"greetingid", 3>>}
      [] OTHER                      -> {}

\* the defaults of the optional arguments: what an argument left out is
NotSupplied(arg) == arg \in {None, Bool(FALSE)}

\* C16: an optional argument is among the parameters sent only when it was
\* supplied; one not supplied is absent from the mapping and from the
\* request, and no optional parameter travels with an empty value.
C16_OptionalOnlyWhenSupplied ==
    EndpointDone => \A oa \in OptionalArgs(call.fn) :
        LET arg  == call.args[oa[2]]
            sent == request[1].sent
            wire == Carried(request[1].req)
        IN  /\ HasKey(sent, oa[1]) => ~NotSupplied(arg)
            /\ NotSupplied(arg) =>
                  /\ ~HasKey(sent, oa[1])
                  /\ \A i \in 1..Len(wire) : wire[i][1] # oa[1]
            /\ HasKey(sent, oa[1]) => Truthy(Item(sent, oa[1]))
            /\ \A i \in 1..Len(wire) : wire[i][1] = oa[1] => wire[i][2] # ""

\* conference_add with a greeting and muted: both travel
C16_Witness ==
    /\ EndpointDone /\ call.fn = "conference_add"
    /\ call.args[3] = Str("g1") /\ call.args[4] = Bool(TRUE)
    /\ Item(request[1].sent, "greetingid") = Str("g1")
    /\ Item(request[1].sent, "muted") = Str("true")
    /\ \E i \in 1..Len(Carried(request[1].req)) :
           Carried(request[1].req)[i] = <<"muted", "true">>

\* C17: version() returns the tuple of the three integers of a raw body that
\* is a dotted version string, and raises a TelesocialServiceError for every
\* other raw body.
DottedVersion(chars) ==
    LET pieces == split(chars, ".") IN
    Len(pieces) = 3 /\ \A i \in 1..3 : ~int(pieces[i]).raised

C17_VersionParsed ==
    (Done /\ call.fn = "version" /\ ~resp.raised) =>
        LET chars == Chars(RawText(resp.val.v[2])) IN
        IF DottedVersion(chars)
        THEN outcome = Ok(Tuple([i \in 1..3 |-> int(split(chars, ".")[i]).val]))
        ELSE outcome.raised /\ outcome.exc.cls = "TelesocialServiceError"

\* C18: a service error carries a numeric code and a message; when the site
\* that raises it supplies no code (the parse failure of version), the code
\* is 500.
C18_ServiceErrorHasCode ==
    (Done /\ outcome.raised /\ outcome.exc.cls = "TelesocialServiceError") =>
        /\ outcome.exc.code.t = "int"
        /\ outcome.exc.message # None
        /\ call.fn = "version" => outcome.exc.code = Num(500)

\* the status lookup of download_file gave a url to fetch
LookupGaveUrl ==
    /\ ~resp.raised
    /\ Is2xx(Code(resp.val))
    /\ HasKey(Data(resp.val), "MediaResponse")
    /\ IsDict(Item(Data(resp.val), "MediaResponse"))
    /\ HasKey(Item(Data(resp.val), "MediaResponse"), "downloadUrl")
    /\ Truthy(Item(Item(Data(resp.val), "MediaResponse"), "downloadUrl"))

\* the fetch of the url brought the bytes of the file
FetchGaveBytes == Len(direct) = 1 /\ ~urlopen(direct[1].ans).raised

\* C19: download_file never raises.  When the status lookup fails (an error,
\* or a body with no download url) or the fetch fails, the failure is
\* printed, no file is written and the call returns; a file is written only
\* after a lookup and a fetch that succeeded, and holds the fetched bytes.
C19_DownloadNeverRaises ==
    (Done /\ call.fn = "download_file") =>
        /\ ~outcome.raised
        /\ ~(LookupGaveUrl /\ FetchGaveBytes) => written = <<>> /\ printed # <<>>
        /\ (LookupGaveUrl /\ FetchGaveBytes)
             => written = <<[path |-> call.args[2], data |-> direct[1].ans.payload]>>

\* C20: upload_file sends one request and, for every status the upload
\* endpoint answers with, returns the pair (status, body) as it came and
\* raises nothing; it raises a TelesocialNetworkError exactly when no
\* response is obtained.
C20_UploadNoStatusPolicy ==
    (Done /\ call.fn = "upload_file") =>
        /\ Len(direct) = 1
        /\ direct[1].ans.got
             => outcome = Ok(RawPair(<<direct[1].ans.status, direct[1].ans.payload>>))
        /\ ~direct[1].ans.got
             => outcome.raised /\ outcome.exc.cls = "TelesocialNetworkError"

\* the call of SimpleClient that stands behind a method of a wrapper: the
\* bound id in its place among the arguments of the method
Corresponding(c, m, id, a, ans) ==
    CASE m = "NetworkId.blast"   -> media_blast(c, a[1], id, a[2], ans)
      [] m = "NetworkId.record"  -> media_record(c, a[1], id, a[2], ans)
      [] m = "NetworkId.add"     -> conference_add(c, a[1], id, a[2], Bool(FALSE), ans)
      [] m = "NetworkId.hangup"  -> conference_hangup(c, a[1], id, ans)
      [] m = "NetworkId.move"    -> conference_move(c, a[1], a[2], id, ans)
      [] m = "NetworkId.mute"    -> conference_mute(c, a[1], id, Bool(TRUE), ans)
      [] m = "NetworkId.unmute"  -> conference_unmute(c, a[1], id, ans)
      [] m = "Conference.add"    -> conference_add(c, id, a[1], a[2], Bool(FALSE), ans)
      [] m = "Conference.close"  -> conference_close(c, id, ans)
      [] m = "Conference.hangup" -> conference_hangup(c, id, a[1], ans)
      [] m = "Conference.move"   -> conference_move(c, id, a[1], a[2], ans)
      [] m = "Conference.mute"   -> conference_mute(c, id, a[1], Bool(TRUE), ans)
      [] m = "Conference.unmute" -> conference_unmute(c, id, a[1], ans)
      [] m = "Media.record"      -> media_record(c, id, a[1], a[2], ans)
      [] m = "Media.blast"       -> media_blast(c, id, a[1], a[2], ans)
      [] m = "Media.status"      -> media_status(c, id, ans)
      [] m = "Media.remove"      -> media_remove(c, id, ans)

\* C21: a method of a wrapper issues exactly the request of the function of
\* SimpleClient it stands for, given the bound id and the arguments, and
\* returns or raises what that function does with the server's answer;
\* Conference.move(to_id, network_id) is conference_move(id, to_id, network_id).
C21_WrapperRefinesEndpoint ==
    (Done /\ call.fn \in WrapperMethods) =>
        \E ans \in Answers(EndpointOf(call.fn)) :
            LET r == Corresponding(Self, call.fn, Head(call.args), Tail(call.args), ans)
            IN  request = r.reqs /\ outcome = r.out

\* what a property tells of one answer of the server, when it tells anything
ReadFrom(m, ans) ==
    CASE m = "NetworkId.exists"     -> Bool(ans.status \in {200, 401})
      [] m = "NetworkId.related"    -> Bool(ans.status = 200)
      [] m = "Media.content_exists" -> Bool(ans.status = 200)
      [] m = "Media.download_url"   ->
           IF ans.status = 200
           THEN Item(Item(ans.payload.doc, "MediaResponse"), "downloadUrl") ELSE None
      [] m = "Media.size"           ->
           IF ans.status = 200
           THEN Item(Item(ans.payload.doc, "MediaResponse"), "fileSize") ELSE None
      [] m = "Media.upload_grant"   ->
           Item(Item(ans.payload.doc, "UploadResponse"), "grantId")

\* C22: the wrappers cache nothing.  Every access to a property issues one
\* request of its own, and the value it returns is read from the answer to
\* that request alone, whatever an access before it returned.
C22_NothingCached ==
    (Done /\ call.fn \in Properties) =>
        /\ Len(request) = 1
        /\ ~outcome.raised => outcome.val = ReadFrom(call.fn, request[1].ans)

\* Media.download_url read twice in a row: the second value is that of the
\* second answer and differs from the first
C22_Witness ==
    /\ Done /\ call.fn = "Media.download_url"
    /\ earlier.fn = "Media.download_url"
    /\ earlier.out = Ok(Str("http://dl/m1"))
    /\ outcome = Ok(Str("http://dl/m2"))
    /\ Len(request) = 1

\* C23: in every step host and scheme stay what the constructor made them,
\* and the application key changes only in a step of its setter, to the key
\* assigned: no endpoint function, transport call, upload or download
\* changes either.
C23_HostAndKeyFrame ==
    [][/\ host' = host
       /\ appkey' # appkey => (pc = "idle" /\ pc' = "idle" /\ appkey' \in AppKeys)
       /\ pc' = "done" => appkey' = appkey]_vars

\* a download that fetched and wrote the file, on a client whose key is the
\* second one
C23_Witness ==
    /\ Done /\ call.fn = "download_file" /\ written # <<>>
    /\ appkey = "key 2"
    /\ host = <<"https://", HostName>>
    /\ Item(request[1].sent, "appkey") = Str("key 2")

\* C24: the request of upload_file goes to host + "/forklift", with no
\* "/api/rest/" before the path, and its body is: the part of the form field
\* `grant` with the grant id, then the part of the file `mediafile`, of type
\* audio/mpeg, with the bytes of the file, then the closing boundary.
C24_UploadRequest ==
    (Done /\ call.fn = "upload_file" /\ direct # <<>>) =>
        /\ Len(direct) = 1
        /\ direct[1].uri = [base |-> host, path |-> <<"forklift">>]
        /\ \E content \in FileBytes :
             direct[1].data =
               << <<"--", BOUNDARY>>,
                  <<"Content-Disposition: form-data; name=\"", "grant", "\"">>,
                  <<>>,
                  <<PyStr(call.args[1])>>,
                  <<"--", BOUNDARY>>,
                  <<"Content-Disposition: form-data; name=\"", "mediafile",
                    "\"; filename=\"", basename(call.args[2]), "\"">>,
                  <<"Content-Type: ", "audio/mpeg">>,
                  <<>>,
                  <<content>>,
                  <<"--", BOUNDARY, "--">>,
                  <<>> >>

\* an upload whose request was sent and answered
C24_Witness ==
    /\ Done /\ call.fn = "upload_file" /\ Len(direct) = 1
    /\ direct[1].ans.got /\ ~outcome.raised
    /\ direct[1].data[4] = <<"gr1">>
    /\ direct[1].data[9] = <<"ID3">>

\* C25: on an answer of the status query, NetworkId.exists is True with 200
\* and 401 and False with 404, NetworkId.related is True with 200 and False
\* with 401 and 404, related of an answer implies exists of the same answer,
\* and with every other status both raise a TelesocialServiceError.
C25_ExistsAndRelated ==
    (Done /\ call.fn \in {"NetworkId.exists", "NetworkId.related"} /\ GotResponse) =>
        LET st  == Code(resp.val)
            ans == request[1].ans
            id  == call.args[1]
        IN /\ st \in {200, 401, 404} =>
                outcome = Ok(Bool(IF call.fn = "NetworkId.exists"
                                  THEN st \in {200, 401} ELSE st = 200))
           /\ st \notin {200, 401, 404} =>
                outcome.raised /\ outcome.exc.cls = "TelesocialServiceError"
           /\ NetworkId_related(Self, id, ans).out = Ok(Bool(TRUE)) =>
                NetworkId_exists(Self, id, ans).out = Ok(Bool(TRUE))

\* C26: on an answer of the media status query, Media.content_exists is True
\* with status 200 and False with every other status, and Media.download_url
\* and Media.size are None with every status other than 200: none of the
\* three raises because the media has no content.
C26_NoContentIsFalseOrNone ==
    (Done /\ call.fn \in {"Media.content_exists", "Media.download_url", "Media.size"}
          /\ GotResponse) =>
        IF Code(resp.val) = 200
        THEN call.fn = "Media.content_exists" => outcome = Ok(Bool(TRUE))
        ELSE outcome = IF call.fn = "Media.content_exists" THEN Ok(Bool(FALSE))
                       ELSE Ok(None)

\* the wrapper and the key under which a creator finds the new id
IdWrapper(fn) == IF fn = "create_conference" THEN "ConferenceResponse" ELSE "MediaResponse"
IdKey(fn)     == IF fn = "create_conference" THEN "conferenceId" ELSE "mediaId"
HandleClass(fn) == IF fn = "create_conference" THEN "Conference" ELSE "Media"
\* the response holds the id where the creator looks for it
HoldsId(fn, data) ==
    /\ IsDict(data) /\ HasKey(data, IdWrapper(fn))
    /\ IsDict(Item(data, IdWrapper(fn)))
    /\ HasKey(Item(data, IdWrapper(fn)), IdKey(fn))

\* C27: create_conference and create_media return a handle only on a 2xx
\* response, its id is the one in the response, and a 2xx response without
\* the id makes them raise a TelesocialServiceError around the KeyError or
\* TypeError of the lookup; register_network_id returns a handle exactly when
\* the registration got a 2xx response, and the handle is a NetworkId of the
\* network id that was asked for.
C27_HandlesOfCreators ==
    /\ (Done /\ call.fn \in {"create_conference", "create_media"}) =>
          /\ Returned => (GotResponse /\ Is2xx(Code(resp.val)))
          /\ (GotResponse /\ Is2xx(Code(resp.val))) =>
                IF HoldsId(call.fn, Data(resp.val))
                THEN outcome = Ok(Handle(HandleClass(call.fn),
                                         Item(Item(Data(resp.val), IdWrapper(call.fn)),
                                              IdKey(call.fn))))
                ELSE /\ outcome.raised
                     /\ outcome.exc.cls = "TelesocialServiceError"
                     /\ outcome.exc.original \in {"KeyError", "TypeError"}
    /\ (Done /\ call.fn = "register_network_id") =>
          /\ Returned <=> (GotResponse /\ Is2xx(Code(resp.val)))
          /\ Returned => outcome = Ok(Handle("NetworkId", call.args[1]))

\* a conference was created and its handle holds the id of the response
C27_Witness ==
    /\ Done /\ call.fn = "create_conference" /\ Returned
    /\ HoldsId(call.fn, Data(resp.val))
    /\ outcome.val = Handle("Conference", Item(Item(Data(resp.val), "ConferenceResponse"),
                                               "conferenceId"))
    /\ outcome.val.v[1] # None

\* C28: the one request of media_blast has the path `media/<ids>` under
\* /api/rest/: after "media/" comes the id itself when one id is given, and
\* when a list of n ids is given, the n ids in the order of the list with one
\* "-" between each two: every id once, nothing else.
C28_BlastPath ==
    (Done /\ call.fn = "media_blast") =>
        LET ids  == call.args[1]
            path == request[1].req.uri.path
        IN /\ Len(request) = 1
           /\ request[1].req.uri.prefix = "/api/rest/"
           /\ path[1] = "media"
           /\ IF IsList(ids)
              THEN /\ Len(path) = 2 * Len(ids.v)
                   /\ \A i \in 1..Len(ids.v) : path[2 * i] = ids.v[i].v[1]
                   /\ \A i \in 1..(Len(ids.v) - 1) : path[2 * i + 1] = "-"
              ELSE path = <<"media", ids.v[1]>>

\* a blast of the list [m1, m2] was sent to media/m1-m2
C28_Witness ==
    /\ Done /\ call.fn = "media_blast"
    /\ call.args[1] = List(<<Str("m1"), Str("m2")>>)
    /\ request[1].req.uri.path = <<"media", "m1", "-", "m2">>
    /\ request[1].ans.got

\* C29: a call of get, post or delete leaves the mapping of the caller as it
\* was: the mapping holds the same keys and values after the call as before.
C29_CallerMappingUnchanged ==
    [][(pc = "idle" /\ pc' = "done" /\ call'.fn \in TransportFns) => query' = query]_vars

\* the action of the request a press sent
SentAction(reqs) == Item(reqs[1].sent, "action")

\* C30: at every press of the mute button, whatever presses came before, the
\* client is asked to mute when the label is "unmuted" and to unmute
\* otherwise; the label becomes the other one of "unmuted" and "muted" when
\* that call returned, and stays as it is when the call raised.
C30_LabelFollowsCall ==
    [][(pc = "idle" /\ pc' = "done" /\ call'.fn = "on_buttonConferenceMute_released") =>
          /\ Len(request') = 1
          /\ SentAction(request') = IF label = "unmuted" THEN Str("mute") ELSE Str("unmute")
          /\ label' \in {"unmuted", "muted"}
          /\ (label' # label) <=> ~outcome'.raised
          /\ (outcome'.raised /\ outcome'.exc.cls \in TelesocialErrors) =>
                (label' = label /\ printed'[Len(printed')] = outcome'.exc)]_vars

\* a later press that asked to unmute and put the label back to "unmuted"
C30_Witness ==
    /\ Done /\ call.fn = "on_buttonConferenceMute_released"
    /\ SentAction(request) = Str("unmute")
    /\ Returned
    /\ label = "unmuted"

====
